---- MODULE Spec2Model ----
(***************************************************************************)
(* A model of the OpenCSD binding of magic-trace-arm:                      *)
(*   src/src/arm/opencsd_binding.c  (the decode session and its event      *)
(*                                   ring buffer)                          *)
(*   src/src/arm/opencsd_stubs.c    (the OCaml stubs over it)              *)
(*                                                                         *)
(* One decode session is modelled.  The session's fields are the           *)
(* variables; every public function of the binding is an action.  The      *)
(* OpenCSD engine is outside the repository: a call into it               *)
(* (ocsd_dt_process_data) is a phase, pc # "idle", during which the engine *)
(* invokes gen_elem_callback any number of times and then returns a status *)
(* of its choice.  The binding is single-threaded, so no other function of *)
(* the session runs while an engine call is in flight.                     *)
(***************************************************************************)
EXTENDS Integers, Sequences, FiniteSets, TLC

VARIABLES
    st,              \* "none" | "live" | "destroyed" | "aborted": the handle returned by create, or the process aborted
    dcd_tree,        \* dec->dcd_tree: 1 a valid tree handle, 0 C_API_INVALID_TREE_HANDLE
    event_buf,       \* dec->event_buf: slot index (0 .. cap-1) -> event
    event_buf_cap,   \* dec->event_buf_cap
    event_buf_head,  \* dec->event_buf_head, next slot to write
    event_buf_tail,  \* dec->event_buf_tail, next slot to read
    error_flag,      \* dec->error_flag
    error_msg,       \* dec->error_msg
    pc,              \* "idle" | "decode" | "flush": the engine call in flight
    call,            \* the arguments of the engine call in flight and what its callbacks did
    pushed,          \* history: the events event_buf_push accepted, in order
    popped,          \* history: the events event_buf_pop returned, in order
    op,              \* the function that ran last (or is running)
    ret,             \* its return value, valid once pc = "idle"
    out,             \* *out of mtrace_opencsd_next_event, when it returned 1
    ret_msg,         \* the string mtrace_opencsd_error_msg returned
    result,          \* the OCaml result the stub built from ret
    engine_called,   \* whether the function that ran last called into the engine
    status,          \* the status the engine returned to the function that ran last
    bytes_used,      \* the consumed-byte count the engine wrote for it
    cb,              \* the last callback of the engine call in flight: its element, whether realloc would succeed, its answer
    note,            \* what the last event_buf_push did: "none" | "stored" | "grown" | "grown_wrapped" | "nomem"
    decoder_cfg,     \* the decoder create asked the engine for, when create ran last: its selector, name and payload
    create_err,      \* what ocsd_dt_create_decoder answered when the session was created ("-" without a session)
    released         \* how often destroy released each part of the handle create returned last, and whether it ran on freed memory

vars == << st, dcd_tree, event_buf, event_buf_cap, event_buf_head, event_buf_tail,
           error_flag, error_msg, pc, call, pushed, popped, op, ret, out, ret_msg,
           result, engine_called, status, bytes_used, cb, note, decoder_cfg,
           create_err, released >>

dec_vars == << dcd_tree, event_buf, event_buf_cap, event_buf_head, event_buf_tail,
               error_flag, error_msg >>

queue_vars == << event_buf, event_buf_cap, event_buf_head, event_buf_tail >>

(***************************************************************************)
(* Bounds of the model.                                                    *)
(***************************************************************************)

\* The capacity create gives the ring (256 in the source, opencsd_binding.c:173),
\* scaled down so that growth and wrap-around are reached.
InitCap == 2

\* The number of events one session accepts before the engine stops producing.
MaxPushes == 5

\* The number of times destroy is run on one handle.
MaxFrees == 2

\* The number of events a session accepts when the engine produces elements
\* of every kind.
MaxClassify == 2

(***************************************************************************)
(* Event kinds, opencsd_binding.h:21-30.                                   *)
(***************************************************************************)
MTRACE_CS_EVENT_INSTRUCTION_RANGE == 0
MTRACE_CS_EVENT_CALL == 1
MTRACE_CS_EVENT_RETURN == 2
MTRACE_CS_EVENT_TRACE_ON == 3
MTRACE_CS_EVENT_TRACE_OFF == 4
MTRACE_CS_EVENT_EXCEPTION == 5
MTRACE_CS_EVENT_EXCEPTION_RET == 6

\* The engine's response codes the callback returns (as names).
OCSD_RESP_CONT == "OCSD_RESP_CONT"
OCSD_RESP_FATAL_SYS_ERR == "OCSD_RESP_FATAL_SYS_ERR"

\* The engine's status codes the binding tells apart (as names), and two others.
OCSD_OK == "OCSD_OK"
OCSD_ERR_UNSUPP_DECODE_PKT == "OCSD_ERR_UNSUPP_DECODE_PKT"
OCSD_ERR_FLUSH_COMPLETE == "OCSD_ERR_FLUSH_COMPLETE"
OCSD_ERR_DATA_DECODE_FATAL == "OCSD_ERR_DATA_DECODE_FATAL"
OCSD_ERR_MEM == "OCSD_ERR_MEM"

\* Every status ocsd_dt_process_data may return.
EngineStatuses ==
    { OCSD_OK, OCSD_ERR_UNSUPP_DECODE_PKT, OCSD_ERR_FLUSH_COMPLETE,
      OCSD_ERR_DATA_DECODE_FATAL }

\* The statuses it returns once a callback answered OCSD_RESP_FATAL_SYS_ERR:
\* the call is aborted, it does not report success.
EngineAbortStatuses == { OCSD_ERR_DATA_DECODE_FATAL }

\* The statuses ocsd_dt_create_decoder and ocsd_dt_add_named_mem_acc may return.
EngineSetupStatuses == { OCSD_OK, OCSD_ERR_MEM }

(***************************************************************************)
(* mtrace_cs_event_t, opencsd_binding.h:33-41.                             *)
(***************************************************************************)
mtrace_cs_event_t(kind, timestamp, from_addr, to_addr, cpu, exception_number) ==
    [ kind |-> kind, timestamp |-> timestamp, from_addr |-> from_addr,
      to_addr |-> to_addr, cpu |-> cpu, exception_number |-> exception_number ]

\* memset(&ev, 0, sizeof(ev))
ZeroEvent == mtrace_cs_event_t(0, 0, 0, 0, 0, 0)

\* A slot of the backing store nothing was written to (malloc, or the upper
\* half realloc adds).  Reading one yields an arbitrary event.
Uninit == mtrace_cs_event_t(-1, 0, 0, 0, 0, 0)

\* No event (the ghost variable out when next_event returned 0).
NoEvent == mtrace_cs_event_t(-2, 0, 0, 0, 0, 0)

(***************************************************************************)
(* The elements the engine hands to the callback (ocsd_generic_trace_elem, *)
(* the fields the callback reads).                                         *)
(***************************************************************************)
Elem(elem_type, last_instr_type, st_addr, en_addr, ctxt_id, exception_number, timestamp) ==
    [ elem_type |-> elem_type, last_instr_type |-> last_instr_type,
      st_addr |-> st_addr, en_addr |-> en_addr, ctxt_id |-> ctxt_id,
      exception_number |-> exception_number, timestamp |-> timestamp ]

\* The elements the engine produces in this model.
EngineElems ==
    { Elem("OCSD_GEN_TRC_ELEM_INSTR_RANGE", "OCSD_INSTR_BR_INDIRECT", 4096, 4112, 1, 0, 7),
      Elem("OCSD_GEN_TRC_ELEM_EXCEPTION", "OCSD_INSTR_OTHER", 8192, 0, 0, 3, 0),
      Elem("OCSD_GEN_TRC_ELEM_TIMESTAMP", "OCSD_INSTR_OTHER", 0, 0, 0, 0, 9) }

\* Elements of every kind the callback has a case for, and of kinds it has
\* none for.
AllElems ==
    EngineElems \cup
    { Elem("OCSD_GEN_TRC_ELEM_INSTR_RANGE", "OCSD_INSTR_BR", 4112, 4128, 1, 0, 7),
      Elem("OCSD_GEN_TRC_ELEM_INSTR_RANGE", "OCSD_INSTR_OTHER", 4128, 4144, 2, 0, 8),
      Elem("OCSD_GEN_TRC_ELEM_TRACE_ON", "OCSD_INSTR_OTHER", 4096, 0, 0, 0, 0),
      Elem("OCSD_GEN_TRC_ELEM_TRACE_OFF", "OCSD_INSTR_OTHER", 4144, 0, 0, 0, 0),
      Elem("OCSD_GEN_TRC_ELEM_EXCEPTION_RET", "OCSD_INSTR_OTHER", 8208, 0, 0, 0, 0),
      Elem("OCSD_GEN_TRC_ELEM_PE_CONTEXT", "OCSD_INSTR_OTHER", 0, 0, 2, 0, 0),
      Elem("OCSD_GEN_TRC_ELEM_SYNC_MARKER", "OCSD_INSTR_OTHER", 4096, 4112, 0, 5, 0) }

(***************************************************************************)
(* The event ring buffer, opencsd_binding.c:44-80.                         *)
(* A queue q is [buf, cap, head, tail].                                    *)
(***************************************************************************)
Queue(buf, cap, head, tail) == [ buf |-> buf, cap |-> cap, head |-> head, tail |-> tail ]

\* The number of stored events.
QLen(q) == IF q.cap = 0 THEN 0 ELSE (q.head + q.cap - q.tail) % q.cap

\* The logical sequence of events from tail to head.
Contents(q) == [ i \in 1 .. QLen(q) |-> q.buf[(q.tail + i - 1) % q.cap] ]

\* realloc(dec->event_buf, new_cap * sizeof(mtrace_cs_event_t)), when it succeeds:
\* the old slots keep their contents, the new ones are uninitialised.
Realloc(buf, cap, new_cap) ==
    [ i \in 0 .. new_cap - 1 |-> IF i < cap THEN buf[i] ELSE Uninit ]

\* memmove(new_buf + new_cap - old_tail_len, new_buf + tail, old_tail_len)
Memmove(buf, dst, src, n) ==
    [ i \in DOMAIN buf |->
        IF i >= dst /\ i < dst + n THEN buf[src + (i - dst)] ELSE buf[i] ]

\* Linearise with the update of tail (line 62) left out.
LineariseNoTail(q, new_buf, new_cap) ==
    IF q.head < q.tail
    THEN LET old_tail_len == q.cap - q.tail
         IN Queue(Memmove(new_buf, new_cap - old_tail_len, q.tail, old_tail_len),
                  new_cap, q.head, q.tail)
    ELSE Queue(new_buf, new_cap, q.head, q.tail)

\* opencsd_binding.c:55-65: linearise the ring after realloc.
Linearise(q, new_buf, new_cap) ==
    IF q.head < q.tail
    THEN LET old_tail_len == q.cap - q.tail
         IN Queue(Memmove(new_buf, new_cap - old_tail_len, q.tail, old_tail_len),
                  new_cap, q.head, new_cap - old_tail_len)
    ELSE Queue(new_buf, new_cap, q.head, q.tail)

\* A fullness test that fires one slot early.
IsFullOffByOne(q) == (q.head + 2) % q.cap = q.tail

\* opencsd_binding.c:46-47: the ring is full when head + 1 would meet tail.
IsFull(q) == (q.head + 1) % q.cap = q.tail

\* Store writing the slot after head instead of head.
StoreAtNext(q, ev) ==
    Queue([ q.buf EXCEPT ![(q.head + 1) % q.cap] = ev ], q.cap, (q.head + 1) % q.cap, q.tail)

\* opencsd_binding.c:68-69: write the event at head and advance head.
Store(q, ev) ==
    Queue([ q.buf EXCEPT ![q.head] = ev ], q.cap, (q.head + 1) % q.cap, q.tail)

\* A push that never grows: a full ring refuses the event.
event_buf_push_drop(q, ev, realloc_ok) ==
    IF IsFull(q)
    THEN [ rc |-> -1, q |-> q, note |-> "nomem" ]
    ELSE [ rc |-> 0, q |-> Store(q, ev), note |-> "stored" ]

\* A push that commits the event before it tries to grow.
event_buf_push_commit_first(q, ev, realloc_ok) ==
    IF IsFull(q)
    THEN IF ~realloc_ok
         THEN [ rc |-> -1, q |-> Store(q, ev), note |-> "nomem" ]
         ELSE LET new_cap == q.cap * 2
                  g == Linearise(q, Realloc(q.buf, q.cap, new_cap), new_cap)
              IN [ rc |-> 0, q |-> Store(g, ev),
                   note |-> IF q.head < q.tail THEN "grown_wrapped" ELSE "grown" ]
    ELSE [ rc |-> 0, q |-> Store(q, ev), note |-> "stored" ]

\* event_buf_push, opencsd_binding.c:44-71.  realloc_ok is whether realloc
\* succeeds, should the push call it.  The result is [rc, q, note].

event_buf_push(q, ev, realloc_ok) ==
    IF IsFull(q)
    THEN IF ~realloc_ok
         THEN [ rc |-> -1, q |-> q, note |-> "nomem" ]
         ELSE LET new_cap == q.cap * 2
                  g == Linearise(q, Realloc(q.buf, q.cap, new_cap), new_cap)
              IN [ rc |-> 0, q |-> Store(g, ev),
                   note |-> IF q.head < q.tail THEN "grown_wrapped" ELSE "grown" ]
    ELSE [ rc |-> 0, q |-> Store(q, ev), note |-> "stored" ]

\* A pop without the test for an empty ring (lines 75-76).
event_buf_pop_noempty(q) ==
    [ rc |-> 1, q |-> Queue(q.buf, q.cap, q.head, (q.tail + 1) % q.cap), slot |-> q.tail ]

\* event_buf_pop, opencsd_binding.c:73-80.  The result is [rc, q, slot]:
\* slot is the slot read (-1 when none).
event_buf_pop(q) ==
    IF q.head = q.tail
    THEN [ rc |-> 0, q |-> q, slot |-> -1 ]
    ELSE [ rc |-> 1, q |-> Queue(q.buf, q.cap, q.head, (q.tail + 1) % q.cap),
           slot |-> q.tail ]

(***************************************************************************)
(* Unsigned 32-bit values, as two 16-bit halves, and 64-bit sizes as a     *)
(* 32-bit top part over such a value.                                      *)
(***************************************************************************)
U32(hi, lo) == [ hi |-> hi, lo |-> lo ]

SizeT(top, hi, lo) == [ top |-> top, hi |-> hi, lo |-> lo ]

\* (uint32_t)data_len, opencsd_binding.c:291
ToU32(len) == U32(len.hi, len.lo)

\* a <= b on unsigned 32-bit values
LeU32(a, b) == a.hi < b.hi \/ (a.hi = b.hi /\ a.lo <= b.lo)

\* (int)bytes_used, opencsd_binding.c:302: the 32-bit pattern read as signed.
IntCast(u) ==
    IF u.hi >= 32768 THEN (u.hi - 65536) * 65536 + u.lo ELSE u.hi * 65536 + u.lo

\* The lengths and stream offsets the caller passes to decode.
DataLens == { SizeT(0, 0, 0), SizeT(0, 0, 8), SizeT(0, 32768, 0) }

DataIndexes == { 0, 64 }

\* The consumed-byte counts the engine reports: at most the block it was given.
UsedSamples == { U32(0, 0), U32(0, 8), U32(32768, 0) }

\* The file names the caller passes to add_image.
Files == { "a.elf" }

(***************************************************************************)
(* dec->error_msg: what snprintf wrote, as the format used and its         *)
(* arguments.                                                              *)
(***************************************************************************)
Msg(fmt, index, file, err) == [ fmt |-> fmt, index |-> index, file |-> file, err |-> err ]

\* calloc'ed: the empty string
EmptyMsg == Msg("", 0, "", "")

\* opencsd_binding.c:153-154
AllocFailedMsg == Msg("opencsd: event buffer allocation failed", 0, "", "")

\* opencsd_binding.c:243-245
CreateFailedMsg(err) == Msg("opencsd: ocsd_dt_create_decoder failed: %s", 0, "", err)

\* opencsd_binding.c:270-272
AddImageFailedMsg(file, err) == Msg("opencsd: add_named_mem_acc failed for %s: %s", 0, file, err)

\* opencsd_binding.c:296-298
DecodeFailedMsg(index, err) == Msg("opencsd: decode error at index %llu: %s", index, "", err)

\* No string (the ghost variable ret_msg when error_msg was not called).
NoMsg == Msg("-", 0, "", "")

(***************************************************************************)
(* The OCaml results the stubs build, opencsd_stubs.c.                     *)
(***************************************************************************)
Ok(n) == [ tag |-> "Ok", int |-> n, msg |-> NoMsg ]

Error(m) == [ tag |-> "Error", int |-> 0, msg |-> m ]

NoResult == [ tag |-> "-", int |-> 0, msg |-> NoMsg ]

\* caml_mtrace_opencsd_decode, opencsd_stubs.c:129-140
caml_decode_result(consumed, msg) == IF consumed < 0 THEN Error(msg) ELSE Ok(consumed)

\* caml_mtrace_opencsd_flush, opencsd_stubs.c:152-163, and
\* caml_mtrace_opencsd_add_image, opencsd_stubs.c:97-110
caml_unit_result(rc, msg) == IF rc # 0 THEN Error(msg) ELSE Ok(0)

(***************************************************************************)
(* gen_elem_callback, opencsd_binding.c:89-159.                            *)
(***************************************************************************)

\* A classifier with the two branch kinds exchanged.
ClassifySwapped(elem) ==
    LET ev0 == [ ZeroEvent EXCEPT !.timestamp = elem.timestamp ]
    IN IF elem.elem_type = "OCSD_GEN_TRC_ELEM_INSTR_RANGE"
       THEN [ accept |-> TRUE,
              ev |-> [ ev0 EXCEPT
                         !.kind = IF elem.last_instr_type = "OCSD_INSTR_BR_INDIRECT"
                                  THEN MTRACE_CS_EVENT_CALL
                                  ELSE IF elem.last_instr_type = "OCSD_INSTR_BR"
                                       THEN MTRACE_CS_EVENT_RETURN
                                       ELSE MTRACE_CS_EVENT_INSTRUCTION_RANGE,
                         !.from_addr = elem.st_addr,
                         !.to_addr = elem.en_addr,
                         !.cpu = elem.ctxt_id ] ]
       ELSE IF elem.elem_type \in { "OCSD_GEN_TRC_ELEM_TRACE_ON", "OCSD_GEN_TRC_ELEM_TRACE_OFF",
                                    "OCSD_GEN_TRC_ELEM_EXCEPTION", "OCSD_GEN_TRC_ELEM_EXCEPTION_RET" }
            THEN [ accept |-> TRUE,
                   ev |-> [ ev0 EXCEPT
                              !.kind = CASE elem.elem_type = "OCSD_GEN_TRC_ELEM_TRACE_ON" -> MTRACE_CS_EVENT_TRACE_ON
                                         [] elem.elem_type = "OCSD_GEN_TRC_ELEM_TRACE_OFF" -> MTRACE_CS_EVENT_TRACE_OFF
                                         [] elem.elem_type = "OCSD_GEN_TRC_ELEM_EXCEPTION" -> MTRACE_CS_EVENT_EXCEPTION
                                         [] OTHER -> MTRACE_CS_EVENT_EXCEPTION_RET,
                              !.from_addr = elem.st_addr,
                              !.exception_number =
                                  IF elem.elem_type = "OCSD_GEN_TRC_ELEM_EXCEPTION"
                                  THEN elem.exception_number ELSE 0 ] ]
            ELSE [ accept |-> FALSE, ev |-> ev0 ]

\* opencsd_binding.c:99-149: the event an element maps to; accept is FALSE
\* for the elements the default branch ignores.
Classify(elem) ==
    LET ev0 == [ ZeroEvent EXCEPT !.timestamp = elem.timestamp ]
    IN CASE elem.elem_type = "OCSD_GEN_TRC_ELEM_INSTR_RANGE" ->
              [ accept |-> TRUE,
                ev |-> [ ev0 EXCEPT
                           !.kind = IF elem.last_instr_type = "OCSD_INSTR_BR_INDIRECT"
                                    THEN MTRACE_CS_EVENT_RETURN
                                    ELSE IF elem.last_instr_type = "OCSD_INSTR_BR"
                                         THEN MTRACE_CS_EVENT_CALL
                                         ELSE MTRACE_CS_EVENT_INSTRUCTION_RANGE,
                           !.from_addr = elem.st_addr,
                           !.to_addr = elem.en_addr,
                           !.cpu = elem.ctxt_id ] ]
         [] elem.elem_type = "OCSD_GEN_TRC_ELEM_TRACE_ON" ->
              [ accept |-> TRUE,
                ev |-> [ ev0 EXCEPT !.kind = MTRACE_CS_EVENT_TRACE_ON,
                                    !.from_addr = elem.st_addr ] ]
         [] elem.elem_type = "OCSD_GEN_TRC_ELEM_TRACE_OFF" ->
              [ accept |-> TRUE,
                ev |-> [ ev0 EXCEPT !.kind = MTRACE_CS_EVENT_TRACE_OFF,
                                    !.from_addr = elem.st_addr ] ]
         [] elem.elem_type = "OCSD_GEN_TRC_ELEM_EXCEPTION" ->
              [ accept |-> TRUE,
                ev |-> [ ev0 EXCEPT !.kind = MTRACE_CS_EVENT_EXCEPTION,
                                    !.from_addr = elem.st_addr,
                                    !.exception_number = elem.exception_number ] ]
         [] elem.elem_type = "OCSD_GEN_TRC_ELEM_EXCEPTION_RET" ->
              [ accept |-> TRUE,
                ev |-> [ ev0 EXCEPT !.kind = MTRACE_CS_EVENT_EXCEPTION_RET,
                                    !.from_addr = elem.st_addr ] ]
         [] OTHER -> [ accept |-> FALSE, ev |-> ev0 ]

\* The events the engine's elements map to.
EngineEvents == { Classify(e).ev : e \in { x \in EngineElems : Classify(x).accept } }

\* A callback that reports a failed push to the engine without latching it.
gen_elem_callback_nolatch(q, flag, msg, elem, realloc_ok) ==
    LET c == Classify(elem)
        p == event_buf_push(q, c.ev, realloc_ok)
    IN IF ~c.accept
       THEN [ resp |-> OCSD_RESP_CONT, q |-> q, flag |-> flag, msg |-> msg,
              note |-> "none", pushed |-> << >> ]
       ELSE IF p.rc # 0
            THEN [ resp |-> OCSD_RESP_FATAL_SYS_ERR, q |-> p.q, flag |-> flag,
                   msg |-> msg, note |-> p.note, pushed |-> << >> ]
            ELSE [ resp |-> OCSD_RESP_CONT, q |-> p.q, flag |-> flag, msg |-> msg,
                   note |-> p.note, pushed |-> << c.ev >> ]

\* The whole callback on the session (q, flag, msg).  The result is
\* [resp, q, flag, msg, note, pushed]: pushed is <<ev>> when an event went
\* into the queue and << >> otherwise.
gen_elem_callback(q, flag, msg, elem, realloc_ok) ==
    LET c == Classify(elem)
        p == event_buf_push(q, c.ev, realloc_ok)
    IN IF ~c.accept
       THEN [ resp |-> OCSD_RESP_CONT, q |-> q, flag |-> flag, msg |-> msg,
              note |-> "none", pushed |-> << >> ]
       ELSE IF p.rc # 0
            THEN [ resp |-> OCSD_RESP_FATAL_SYS_ERR, q |-> p.q, flag |-> 1,
                   msg |-> AllocFailedMsg, note |-> p.note, pushed |-> << >> ]
            ELSE [ resp |-> OCSD_RESP_CONT, q |-> p.q, flag |-> flag, msg |-> msg,
                   note |-> p.note, pushed |-> << c.ev >> ]

(***************************************************************************)
(* The session.                                                            *)
(***************************************************************************)

\* The queue of the session.
Q == Queue(event_buf, event_buf_cap, event_buf_head, event_buf_tail)

\* The engine call in flight: the stream offset and block size it was given,
\* whether a callback answered fatal, and how many times the ring grew in it.
Call(index, block, fatal, growths) ==
    [ index |-> index, block |-> block, fatal |-> fatal, growths |-> growths ]

NoCall == Call(0, U32(0, 0), FALSE, 0)

\* One callback: the element handed over, whether realloc succeeds if the push
\* calls it, and the response the callback returned.
Callback(elem, realloc_ok, resp) == [ elem |-> elem, realloc_ok |-> realloc_ok, resp |-> resp ]

NoCb == Callback(Elem("-", "-", 0, 0, 0, 0, 0), FALSE, "-")

\* The selectors create is called with: the three it names and two others.
ArchVersions == { 3, 4, 5, 0, 7 }

\* opencsd_binding.c:208-233: the decoder name and the configuration payload
\* create chooses for arch_version.  The payload is the struct decoder_cfg
\* points to, with the fields create assigns after memset.
ArchConfig(arch_version) ==
    IF arch_version = 3
    THEN [ decoder_name |-> "OCSD_BUILTIN_DCD_ETMV3",
           cfg |-> [ type |-> "ocsd_etmv3_cfg",
                     reg_idr |-> 0,
                     arch_ver |-> "CS_ARCH_V7",
                     core_prof |-> "profile_CortexA" ] ]
    ELSE [ decoder_name |-> IF arch_version = 5 THEN "OCSD_BUILTIN_DCD_ETE"
                                                ELSE "OCSD_BUILTIN_DCD_ETMV4I",
           cfg |-> [ type |-> "ocsd_etmv4_cfg",
                     reg_idr0 |-> 671092385,     \* 0x28000ea1
                     reg_idr1 |-> 1090581507,    \* 0x4100f403
                     reg_idr2 |-> 1160,          \* 0x00000488
                     reg_idr8 |-> 0,
                     reg_configr |-> 193,        \* 0x000000c1
                     arch_ver |-> IF arch_version = 5 THEN "CS_ARCH_V8" ELSE "CS_ARCH_V8",
                     core_prof |-> "profile_CortexA" ] ]

\* What create passed to ocsd_dt_create_decoder.
DecoderCfg(arch_version) ==
    [ arch_version |-> arch_version,
      decoder_name |-> ArchConfig(arch_version).decoder_name,
      cfg |-> ArchConfig(arch_version).cfg ]

NoCfg == [ arch_version |-> -1, decoder_name |-> "-", cfg |-> [ type |-> "-" ] ]

\* The releases of one handle: calls of ocsd_destroy_dcd_tree, free(event_buf)
\* and free(dec), and whether destroy read the session after free(dec).
Released(tree, buf, dec, uaf) == [ tree |-> tree, buf |-> buf, dec |-> dec, uaf |-> uaf ]

NoRelease == Released(0, 0, 0, FALSE)

\* The fields of a session that does not exist (before create, after destroy).
NoSession ==
    /\ dcd_tree' = 0
    /\ event_buf' = << >>
    /\ event_buf_cap' = 0
    /\ event_buf_head' = 0
    /\ event_buf_tail' = 0
    /\ error_flag' = 0
    /\ error_msg' = EmptyMsg
    /\ pushed' = << >>
    /\ popped' = << >>
    /\ create_err' = "-"

\* What the function that ran reports.
Reports(o, r, res, called) ==
    /\ op' = o
    /\ ret' = r
    /\ result' = res
    /\ engine_called' = called

\* The outputs a function does not produce.
NoOutputs ==
    /\ out' = NoEvent
    /\ ret_msg' = NoMsg
    /\ status' = "-"
    /\ bytes_used' = U32(0, 0)
    /\ cb' = NoCb
    /\ decoder_cfg' = NoCfg
    /\ note' = "none"

Init ==
    /\ st = "none"
    /\ dcd_tree = 0
    /\ event_buf = << >>
    /\ event_buf_cap = 0
    /\ event_buf_head = 0
    /\ event_buf_tail = 0
    /\ error_flag = 0
    /\ error_msg = EmptyMsg
    /\ pc = "idle"
    /\ call = NoCall
    /\ pushed = << >>
    /\ popped = << >>
    /\ op = "-"
    /\ ret = 0
    /\ out = NoEvent
    /\ ret_msg = NoMsg
    /\ result = NoResult
    /\ engine_called = FALSE
    /\ status = "-"
    /\ bytes_used = U32(0, 0)
    /\ cb = NoCb
    /\ note = "none"
    /\ decoder_cfg = NoCfg
    /\ released = NoRelease
    /\ create_err = "-"

\* mtrace_opencsd_create, opencsd_binding.c:165-253.  ret is 1 for a session
\* and 0 for NULL; status is what the engine answered: "-" when create
\* returned before it reached the engine, C_API_INVALID_TREE_HANDLE when
\* ocsd_create_dcd_tree failed, else the result of ocsd_dt_create_decoder.
mtrace_opencsd_create ==
    /\ st \in { "none", "destroyed" }
    /\ pc = "idle"
    /\ \E calloc_ok, malloc_ok, tree_ok \in BOOLEAN, err \in EngineSetupStatuses,
          arch_version \in ArchVersions :
          IF ~calloc_ok \/ ~malloc_ok \/ ~tree_ok
          THEN /\ st' = "none"
               /\ NoSession
               /\ status' = IF calloc_ok /\ malloc_ok
                            THEN "C_API_INVALID_TREE_HANDLE" ELSE "-"
               /\ decoder_cfg' = NoCfg
               /\ Reports("create", 0, NoResult, calloc_ok /\ malloc_ok)
          ELSE /\ st' = "live"
               /\ dcd_tree' = 1
               /\ event_buf' = [ i \in 0 .. InitCap - 1 |-> Uninit ]
               /\ event_buf_cap' = InitCap
               /\ event_buf_head' = 0
               /\ event_buf_tail' = 0
               /\ error_flag' = IF err # OCSD_OK THEN 1 ELSE 0
               /\ error_msg' = IF err # OCSD_OK THEN CreateFailedMsg(err) ELSE EmptyMsg
               /\ pushed' = << >>
               /\ popped' = << >>
               /\ create_err' = err
               /\ status' = err
               /\ decoder_cfg' = DecoderCfg(arch_version)
               /\ Reports("create", 1, NoResult, TRUE)
    /\ released' = NoRelease
    /\ out' = NoEvent
    /\ ret_msg' = NoMsg
    /\ bytes_used' = U32(0, 0)
    /\ cb' = NoCb
    /\ note' = "none"
    /\ UNCHANGED << pc, call >>

\* add_image recording its outcome in the error flag.
add_image_sets_flag ==
    /\ st = "live"
    /\ pc = "idle"
    /\ \E file \in Files, err \in EngineSetupStatuses :
          /\ error_msg' = IF err # OCSD_OK THEN AddImageFailedMsg(file, err) ELSE error_msg
          /\ error_flag' = IF err # OCSD_OK THEN 1 ELSE 0
          /\ Reports("add_image", IF err # OCSD_OK THEN -1 ELSE 0,
                     caml_unit_result(IF err # OCSD_OK THEN -1 ELSE 0, error_msg'), TRUE)
          /\ status' = err
    /\ out' = NoEvent
    /\ ret_msg' = NoMsg
    /\ bytes_used' = U32(0, 0)
    /\ cb' = NoCb
    /\ decoder_cfg' = NoCfg
    /\ note' = "none"
    /\ UNCHANGED << st, released, create_err, dcd_tree, queue_vars, pc, call, pushed, popped >>

\* mtrace_opencsd_add_image, opencsd_binding.c:255-276, under
\* caml_mtrace_opencsd_add_image, opencsd_stubs.c:84-112.
mtrace_opencsd_add_image ==
    /\ st = "live"
    /\ pc = "idle"
    /\ \E file \in Files, err \in EngineSetupStatuses :
          /\ error_msg' = IF err # OCSD_OK THEN AddImageFailedMsg(file, err) ELSE error_msg
          /\ Reports("add_image", IF err # OCSD_OK THEN -1 ELSE 0,
                     caml_unit_result(IF err # OCSD_OK THEN -1 ELSE 0, error_msg'), TRUE)
          /\ status' = err
    /\ out' = NoEvent
    /\ ret_msg' = NoMsg
    /\ bytes_used' = U32(0, 0)
    /\ cb' = NoCb
    /\ decoder_cfg' = NoCfg
    /\ note' = "none"
    /\ UNCHANGED << st, released, create_err, dcd_tree, queue_vars, error_flag, pc, call, pushed, popped >>

\* decode without the check of the error flag (lines 283-284).
DecodeCallNoCheck ==
    /\ st = "live"
    /\ pc = "idle"
    /\ \E data_len \in DataLens, data_index \in DataIndexes :
          /\ pc' = "decode"
          /\ call' = Call(data_index, ToU32(data_len), FALSE, 0)
          /\ Reports("decode", 0, NoResult, TRUE)
    /\ NoOutputs
    /\ UNCHANGED << st, released, create_err, dec_vars, pushed, popped >>

\* mtrace_opencsd_decode, opencsd_binding.c:278-293: the check of the error
\* flag and the call into the engine.
DecodeCall ==
    /\ st = "live"
    /\ pc = "idle"
    /\ \E data_len \in DataLens, data_index \in DataIndexes :
          IF error_flag # 0
          THEN /\ Reports("decode", -1, caml_decode_result(-1, error_msg), FALSE)
               /\ UNCHANGED << pc, call >>
          ELSE /\ pc' = "decode"
               /\ call' = Call(data_index, ToU32(data_len), FALSE, 0)
               /\ Reports("decode", 0, NoResult, TRUE)
    /\ NoOutputs
    /\ UNCHANGED << st, released, create_err, dec_vars, pushed, popped >>

\* mtrace_opencsd_flush, opencsd_binding.c:305-312: the check of the error
\* flag and the call into the engine.
FlushCall ==
    /\ st = "live"
    /\ pc = "idle"
    /\ IF error_flag # 0
       THEN /\ Reports("flush", -1, caml_unit_result(-1, error_msg), FALSE)
            /\ UNCHANGED << pc, call >>
       ELSE /\ pc' = "flush"
            /\ call' = Call(0, U32(0, 0), FALSE, 0)
            /\ Reports("flush", 0, NoResult, TRUE)
    /\ NoOutputs
    /\ UNCHANGED << st, released, create_err, dec_vars, pushed, popped >>

\* The engine, inside ocsd_dt_process_data, hands one element of elems to
\* gen_elem_callback (opencsd_binding.c:89-159).  It stops calling back once
\* a callback has answered OCSD_RESP_FATAL_SYS_ERR, and produces no more than
\* max accepted events.
CallbackWith(elems, max) ==
    /\ pc # "idle"
    /\ ~call.fatal
    /\ \E elem \in elems, realloc_ok \in BOOLEAN :
          LET r == gen_elem_callback(Q, error_flag, error_msg, elem, realloc_ok)
          IN /\ Len(pushed) + Len(r.pushed) <= max
             /\ event_buf' = r.q.buf
             /\ event_buf_cap' = r.q.cap
             /\ event_buf_head' = r.q.head
             /\ event_buf_tail' = r.q.tail
             /\ error_flag' = r.flag
             /\ error_msg' = r.msg
             /\ pushed' = pushed \o r.pushed
             /\ note' = r.note
             /\ cb' = Callback(elem, realloc_ok, r.resp)
             /\ call' = [ call EXCEPT
                            !.fatal = (r.resp = OCSD_RESP_FATAL_SYS_ERR),
                            !.growths = IF r.note \in { "grown", "grown_wrapped" }
                                        THEN @ + 1 ELSE @ ]
    /\ UNCHANGED << st, released, create_err, decoder_cfg, dcd_tree, pc, popped, op, ret, out, ret_msg, result,
                    engine_called, status, bytes_used >>

\* A callback in a stream of the elements the sessions of Spec decode.
GenElemCallback == CallbackWith(EngineElems, MaxPushes)

\* A callback in a stream with elements of every kind.
ClassifyCallback == CallbackWith(AllElems, MaxClassify)

\* opencsd_binding.c:294: the statuses decode does not treat as fatal.
DecodeSoft(err) == err = OCSD_OK \/ err = OCSD_ERR_UNSUPP_DECODE_PKT

\* mtrace_opencsd_decode, opencsd_binding.c:294-302, under
\* caml_mtrace_opencsd_decode, opencsd_stubs.c:129-141: the engine returns
\* err and the consumed-byte count used.
DecodeReturn ==
    /\ pc = "decode"
    /\ \E err \in (IF call.fatal THEN EngineAbortStatuses ELSE EngineStatuses),
          used \in { u \in UsedSamples : LeU32(u, call.block) } :
          /\ status' = err
          /\ bytes_used' = used
          /\ IF ~DecodeSoft(err)
             THEN /\ error_msg' = DecodeFailedMsg(call.index, err)
                  /\ error_flag' = 1
                  /\ Reports("decode", -1, caml_decode_result(-1, error_msg'), TRUE)
             ELSE /\ UNCHANGED << error_msg, error_flag >>
                  /\ Reports("decode", IntCast(used),
                             caml_decode_result(IntCast(used), error_msg), TRUE)
    /\ pc' = "idle"
    /\ call' = NoCall
    /\ out' = NoEvent
    /\ ret_msg' = NoMsg
    /\ cb' = NoCb
    /\ decoder_cfg' = NoCfg
    /\ note' = "none"
    /\ UNCHANGED << st, released, create_err, dcd_tree, queue_vars, pushed, popped >>

\* opencsd_binding.c:313: the statuses flush reports as success.
FlushOk(err) == err = OCSD_OK \/ err = OCSD_ERR_FLUSH_COMPLETE

\* mtrace_opencsd_flush, opencsd_binding.c:313, under
\* caml_mtrace_opencsd_flush, opencsd_stubs.c:152-164: the engine returns err.
FlushReturn ==
    /\ pc = "flush"
    /\ \E err \in (IF call.fatal THEN EngineAbortStatuses ELSE EngineStatuses) :
          /\ status' = err
          /\ Reports("flush", IF FlushOk(err) THEN 0 ELSE -1,
                     caml_unit_result(IF FlushOk(err) THEN 0 ELSE -1, error_msg), TRUE)
    /\ pc' = "idle"
    /\ call' = NoCall
    /\ out' = NoEvent
    /\ ret_msg' = NoMsg
    /\ bytes_used' = U32(0, 0)
    /\ cb' = NoCb
    /\ decoder_cfg' = NoCfg
    /\ note' = "none"
    /\ UNCHANGED << st, released, create_err, dec_vars, pushed, popped >>

\* next_event refusing to drain a session in error.
next_event_checks_error ==
    /\ st = "live"
    /\ pc = "idle"
    /\ LET r == IF error_flag # 0 THEN [ rc |-> 0, q |-> Q, slot |-> -1 ] ELSE event_buf_pop(Q)
       IN /\ event_buf_head' = r.q.head
          /\ event_buf_tail' = r.q.tail
          /\ IF r.rc = 0
             THEN /\ out' = NoEvent
                  /\ popped' = popped
             ELSE /\ out' \in (IF event_buf[r.slot] = Uninit
                               THEN EngineEvents ELSE { event_buf[r.slot] })
                  /\ popped' = Append(popped, out')
          /\ Reports("next_event", r.rc, NoResult, FALSE)
    /\ ret_msg' = NoMsg
    /\ status' = "-"
    /\ bytes_used' = U32(0, 0)
    /\ cb' = NoCb
    /\ decoder_cfg' = NoCfg
    /\ note' = "none"
    /\ UNCHANGED << st, released, create_err, dcd_tree, event_buf, event_buf_cap, error_flag, error_msg,
                    pc, call, pushed >>

\* mtrace_opencsd_next_event, opencsd_binding.c:316-319.  An uninitialised
\* slot reads as an arbitrary event.
mtrace_opencsd_next_event ==
    /\ st = "live"
    /\ pc = "idle"
    /\ LET r == event_buf_pop(Q)
       IN /\ event_buf_head' = r.q.head
          /\ event_buf_tail' = r.q.tail
          /\ IF r.rc = 0
             THEN /\ out' = NoEvent
                  /\ popped' = popped
             ELSE /\ out' \in (IF event_buf[r.slot] = Uninit
                               THEN EngineEvents ELSE { event_buf[r.slot] })
                  /\ popped' = Append(popped, out')
          /\ Reports("next_event", r.rc, NoResult, FALSE)
    /\ ret_msg' = NoMsg
    /\ status' = "-"
    /\ bytes_used' = U32(0, 0)
    /\ cb' = NoCb
    /\ decoder_cfg' = NoCfg
    /\ note' = "none"
    /\ UNCHANGED << st, released, create_err, dcd_tree, event_buf, event_buf_cap, error_flag, error_msg,
                    pc, call, pushed >>

\* mtrace_opencsd_has_error, opencsd_binding.c:321-324
mtrace_opencsd_has_error ==
    /\ st = "live"
    /\ pc = "idle"
    /\ Reports("has_error", error_flag, NoResult, FALSE)
    /\ NoOutputs
    /\ UNCHANGED << st, released, create_err, dec_vars, pc, call, pushed, popped >>

\* mtrace_opencsd_error_msg, opencsd_binding.c:326-330
mtrace_opencsd_error_msg ==
    /\ st = "live"
    /\ pc = "idle"
    /\ Reports("error_msg", 0, NoResult, FALSE)
    /\ ret_msg' = error_msg
    /\ out' = NoEvent
    /\ status' = "-"
    /\ bytes_used' = U32(0, 0)
    /\ cb' = NoCb
    /\ decoder_cfg' = NoCfg
    /\ note' = "none"
    /\ UNCHANGED << st, released, create_err, dec_vars, pc, call, pushed, popped >>

\* The body of mtrace_opencsd_destroy on a session that exists,
\* opencsd_binding.c:336-339: the tree is destroyed if the handle is valid,
\* then the buffer and the session are freed.
Release(o) ==
    /\ st' = "destroyed"
    /\ NoSession
    /\ released' = Released(released.tree + dcd_tree, released.buf + 1,
                            released.dec + 1, released.uaf)
    /\ Reports(o, 0, NoResult, dcd_tree # 0)

\* mtrace_opencsd_destroy, opencsd_binding.c:332-340, called through the C
\* interface on NULL, on the session, or on the pointer to a session that was
\* already destroyed.  The function has no way to tell the last from a
\* session: it reads dcd_tree from the freed memory (tree_seen: whatever is
\* there), frees event_buf and dec again, and the process either goes on or
\* is aborted by the allocator.
mtrace_opencsd_destroy ==
    /\ st \in { "none", "live", "destroyed" }
    /\ pc = "idle"
    /\ CASE st = "none" ->
              /\ Reports("destroy", 0, NoResult, FALSE)
              /\ UNCHANGED << st, released, create_err, dec_vars, pushed, popped >>
         [] st = "live" ->
              Release("destroy")
         [] st = "destroyed" ->
              /\ released.dec < MaxFrees
              /\ \E tree_seen \in { 0, 1 }, abort \in BOOLEAN :
                    /\ st' = IF abort THEN "aborted" ELSE "destroyed"
                    /\ released' = Released(released.tree + tree_seen, released.buf + 1,
                                            released.dec + 1, TRUE)
                    /\ Reports("destroy", 0, NoResult, tree_seen # 0)
              /\ UNCHANGED << dec_vars, create_err, pushed, popped >>
    /\ NoOutputs
    /\ UNCHANGED << pc, call >>

\* decoder_finalize, opencsd_stubs.c:28-34: the collector finalizes the custom
\* block that holds the session, once; the pointer in it is never NULL
\* (caml_mtrace_opencsd_create raises instead of wrapping NULL, lines 74-75).
decoder_finalize ==
    /\ st = "live"
    /\ pc = "idle"
    /\ Release("finalize")
    /\ NoOutputs
    /\ UNCHANGED << pc, call >>

Next ==
    \/ mtrace_opencsd_create
    \/ mtrace_opencsd_add_image
    \/ DecodeCall
    \/ FlushCall
    \/ GenElemCallback
    \/ DecodeReturn
    \/ FlushReturn
    \/ mtrace_opencsd_next_event
    \/ mtrace_opencsd_has_error
    \/ mtrace_opencsd_error_msg
    \/ mtrace_opencsd_destroy
    \/ decoder_finalize

Spec == Init /\ [][Next]_vars

\* A session that is created, flushed and drained while the engine produces
\* elements of every kind.
NextClassify ==
    \/ mtrace_opencsd_create
    \/ FlushCall
    \/ ClassifyCallback
    \/ FlushReturn
    \/ mtrace_opencsd_next_event

SpecClassify == Init /\ [][NextClassify]_vars

TypeOK ==
    /\ st \in { "none", "live", "destroyed", "aborted" }
    /\ error_flag \in { 0, 1 }
    /\ pc \in { "idle", "decode", "flush" }

(***************************************************************************)
(* Properties.                                                             *)
(***************************************************************************)

\* A step of the session between two states in which it exists.
Live == st = "live" /\ st' = "live"

\* A step that is one callback of the engine.
IsCallback == pc # "idle" /\ cb' # NoCb

\* The event the callback of this step built from its element.
CbEvent == Classify(cb'.elem).ev

\* C1: Event Queue FIFO.  In every reachable state the events popped so far
\* are, in order, a prefix of the events pushed so far, and the events still
\* queued are exactly the rest: nothing is reordered, duplicated or lost,
\* wherever head and tail are and however often the ring grew.
C1_QueueFifo ==
    st = "live" =>
        /\ Len(popped) <= Len(pushed)
        /\ popped = SubSeq(pushed, 1, Len(popped))
        /\ Contents(Q) = SubSeq(pushed, Len(popped) + 1, Len(pushed))

\* Events were popped from a ring that grew twice and is wrapped.
C1_Witness ==
    /\ op = "next_event" /\ ret = 1
    /\ Len(popped) >= 2 /\ popped[1] # popped[2]
    /\ event_buf_cap = 4 * InitCap
    /\ event_buf_head < event_buf_tail

\* C2: growth preserves the contents.  A step that changes the capacity of a
\* live session doubles it, and the logical sequence from tail to head is the
\* old one followed by the new event; a wrapped live region has its segment
\* tail..old capacity relocated to the end of the new store, a contiguous one
\* stays where it is.
C2_GrowthPreservesContents ==
    [][ (Live /\ event_buf_cap' # event_buf_cap) =>
          /\ IsFull(Q)
          /\ event_buf_cap' = 2 * event_buf_cap
          /\ QLen(Q') = QLen(Q) + 1
          /\ SubSeq(Contents(Q'), 1, QLen(Q)) = Contents(Q)
          /\ Contents(Q') = Append(Contents(Q), CbEvent)
          /\ IF event_buf_head < event_buf_tail
             THEN /\ event_buf_tail' = event_buf_cap' - (event_buf_cap - event_buf_tail)
                  /\ \A i \in event_buf_tail .. event_buf_cap - 1 :
                        event_buf'[i + event_buf_cap] = event_buf[i]
             ELSE event_buf_tail' = event_buf_tail
       ]_vars

\* The second growth of one engine call, of a wrapped ring.
C2_Witness ==
    /\ note = "grown_wrapped"
    /\ call.growths >= 2
    /\ QLen(Q) >= 2

\* C3: a push never fails because of capacity.  A callback with an accepted
\* element, in a state where the ring is not full or realloc succeeds,
\* answers "continue" and leaves the queue one longer with the event as its
\* last element; a callback answers fatal only when the ring was full and
\* realloc failed.
C3_PushNeverFailsForCapacity ==
    [][ IsCallback =>
          /\ (Classify(cb'.elem).accept /\ (cb'.realloc_ok \/ ~IsFull(Q))) =>
                /\ cb'.resp = OCSD_RESP_CONT
                /\ QLen(Q') = QLen(Q) + 1
                /\ Contents(Q') = Append(Contents(Q), CbEvent)
                /\ pushed' = Append(pushed, CbEvent)
          /\ cb'.resp # OCSD_RESP_CONT =>
                (Classify(cb'.elem).accept /\ IsFull(Q) /\ ~cb'.realloc_ok)
       ]_vars

\* A push into a full ring succeeded by growing it.
C3_Witness ==
    /\ cb # NoCb /\ cb.resp = OCSD_RESP_CONT
    /\ note \in { "grown", "grown_wrapped" }
    /\ QLen(Q) = event_buf_cap \div 2

\* C4: a failed growth leaves the queue untouched and usable.  When the ring
\* is full and realloc fails, the push fails and head, tail, capacity and
\* every slot are as before; on the queue it leaves, pop returns the old
\* front and a push whose realloc succeeds succeeds.
C4_FailedGrowthLeavesQueue ==
    [][ (IsCallback /\ Classify(cb'.elem).accept /\ IsFull(Q) /\ ~cb'.realloc_ok) =>
          /\ cb'.resp = OCSD_RESP_FATAL_SYS_ERR
          /\ note' = "nomem"
          /\ UNCHANGED queue_vars
          /\ pushed' = pushed
          /\ event_buf_pop(Q').rc = 1
          /\ event_buf'[event_buf_pop(Q').slot] = Contents(Q)[1]
          /\ Contents(event_buf_pop(Q').q) = Tail(Contents(Q))
          /\ \A ev \in EngineEvents :
                /\ event_buf_push(Q', ev, TRUE).rc = 0
                /\ Contents(event_buf_push(Q', ev, TRUE).q) = Append(Contents(Q), ev)
       ]_vars

\* A growth failed on a wrapped ring holding events.
C4_Witness ==
    /\ cb # NoCb /\ cb.resp = OCSD_RESP_FATAL_SYS_ERR
    /\ note = "nomem"
    /\ event_buf_head < event_buf_tail
    /\ QLen(Q) = event_buf_cap - 1

\* C5: the fatal latch is sticky.  No step of a live session clears the error
\* flag, and has_error, called with the flag set, returns non-zero.
C5_FatalLatchSticky ==
    [][ (Live /\ error_flag # 0) =>
          /\ error_flag' # 0
          /\ (op' = "has_error" => ret' # 0)
       ]_vars

\* has_error returned true on a session that had pushed events before.
C5_Witness ==
    /\ st = "live" /\ op = "has_error" /\ ret = 1
    /\ Len(pushed) >= 1

\* C6: fail-fast after error.  decode and flush, called with the error flag
\* set, return -1 (the stub an Error) without calling into the engine: no
\* engine call is in flight afterwards, and the queue and the error state are
\* untouched.
C6_FailFastAfterError ==
    [][ (Live /\ pc = "idle" /\ error_flag # 0 /\ op' \in { "decode", "flush" }) =>
          /\ ret' = -1
          /\ result'.tag = "Error"
          /\ pc' = "idle"
          /\ ~engine_called'
          /\ cb' = NoCb
          /\ decoder_cfg' = NoCfg
          /\ UNCHANGED << dec_vars, pushed, popped >>
       ]_vars

\* decode failed fast on a session in error.
C6_Witness ==
    /\ st = "live" /\ error_flag = 1
    /\ op = "decode" /\ pc = "idle" /\ ret = -1 /\ ~engine_called

\* A step in which the engine returns to decode.
IsDecodeReturn == pc = "decode" /\ pc' = "idle"

\* A step in which the engine returns to flush.
IsFlushReturn == pc = "flush" /\ pc' = "idle"

\* C7: feed classifies the engine's status.  When the engine returns success
\* or the soft unsupported-packet status, feed returns the consumed byte
\* count (the stub Ok of it) and does not latch the error state; for every
\* other status it sets the error flag, stores a message and returns an
\* error.
C7_FeedClassifiesStatus ==
    [][ IsDecodeReturn =>
          IF status' \in { OCSD_OK, OCSD_ERR_UNSUPP_DECODE_PKT }
          THEN /\ bytes_used'.hi < 32768
               /\ ret' = bytes_used'.hi * 65536 + bytes_used'.lo
               /\ result' = Ok(ret')
               /\ UNCHANGED << error_flag, error_msg >>
          ELSE /\ error_flag' = 1
               /\ error_msg' = DecodeFailedMsg(call.index, status')
               /\ ret' = -1
               /\ result' = Error(error_msg')
       ]_vars

\* C8: flush has the error semantics of feed.  When the engine returns a
\* fatal status to flush on a session not in error, flush returns an error
\* and latches it: the error flag is set and a message is stored.
C8_FlushLatchesFatal ==
    [][ (IsFlushReturn /\ error_flag = 0 /\ status' = OCSD_ERR_DATA_DECODE_FATAL) =>
          /\ ret' = -1
          /\ error_flag' = 1
          /\ error_msg' # EmptyMsg
       ]_vars

\* C9: drain after error.  next_event on a session in error returns the front
\* of the queue and removes it, exactly as on a session without error; the
\* step that latches the error leaves the queue, and the histories of pushed
\* and popped events, as they were; and in every state with the flag set the
\* events not yet popped are all still queued, in their order.
C9_DrainAfterError ==
    [][ /\ (Live /\ pc = "idle" /\ op' = "next_event" /\ error_flag # 0) =>
              IF QLen(Q) > 0
              THEN /\ ret' = 1
                   /\ out' = Contents(Q)[1]
                   /\ popped' = Append(popped, Contents(Q)[1])
                   /\ Contents(Q') = Tail(Contents(Q))
              ELSE ret' = 0 /\ out' = NoEvent /\ UNCHANGED queue_vars
        /\ (Live /\ error_flag = 0 /\ error_flag' # 0) =>
              UNCHANGED << queue_vars, pushed, popped >>
        /\ (st = "live" /\ error_flag # 0) =>
              popped \o Contents(Q) = pushed
       ]_vars

\* A push failed for lack of memory with the ring full, and the session, in
\* error, has since been drained of everything it had accepted.
C9_Witness ==
    /\ st = "live" /\ error_flag = 1 /\ error_msg = AllocFailedMsg
    /\ op = "next_event" /\ ret = 1
    /\ Len(pushed) >= 3 /\ popped = pushed

\* C10: the error message is write-once.  Once the error flag is set, no step
\* of the session changes the message.
C10_MessageWriteOnce ==
    [][ (Live /\ error_flag # 0) => error_msg' = error_msg ]_vars

\* C11: queue exhaustion inside the classifier.  When the push of an accepted
\* event fails, the callback answers OCSD_RESP_FATAL_SYS_ERR, sets the error
\* flag and stores the allocation-failure message; the queue holds exactly
\* the events it held before and the rejected event is not among the pushed.
C11_QueueExhaustedInClassifier ==
    [][ (IsCallback /\ note' = "nomem") =>
          /\ Classify(cb'.elem).accept
          /\ cb'.resp = OCSD_RESP_FATAL_SYS_ERR
          /\ call'.fatal
          /\ error_flag' = 1
          /\ error_msg' = AllocFailedMsg
          /\ Contents(Q') = Contents(Q)
          /\ QLen(Q') = QLen(Q)
          /\ pushed' = pushed
       ]_vars

\* The push of an accepted event failed inside an engine call: the session is
\* latched with the allocation message and still holds its events.
C11_Witness ==
    /\ pc # "idle" /\ call.fatal
    /\ cb.resp = OCSD_RESP_FATAL_SYS_ERR
    /\ error_flag = 1 /\ error_msg = AllocFailedMsg
    /\ QLen(Q) >= 3

\* A step that is one call of add_image.
IsAddImage == st = "live" /\ pc = "idle" /\ op' = "add_image"

\* C12: a rejected add_image is recoverable.  When the engine rejects the
\* mapping, add_image returns -1 (the stub an Error) and leaves the error
\* flag as it was; on a session without error a decode or add_image that
\* follows the rejection still calls into the engine.
C12_RejectedAddImageRecoverable ==
    [][ /\ (IsAddImage /\ status' # OCSD_OK) =>
              /\ ret' = -1
              /\ result'.tag = "Error"
              /\ error_flag' = error_flag
        /\ (Live /\ pc = "idle" /\ op = "add_image" /\ ret = -1 /\ error_flag = 0
                 /\ op' \in { "decode", "add_image" }) =>
              engine_called'
       ]_vars

\* A decode is inside the engine on a session whose last message is that of a
\* rejected add_image and whose error flag is clear.
C12_Witness ==
    /\ st = "live" /\ pc = "decode" /\ engine_called
    /\ error_flag = 0
    /\ error_msg = AddImageFailedMsg("a.elf", OCSD_ERR_MEM)

\* C13: a rejected add_image alters no shared session state.  After an
\* add_image the engine refuses, the error flag, the error message and the
\* queue are what they were before the call.
C13_RejectedAddImageAltersNothing ==
    [][ (IsAddImage /\ status' # OCSD_OK) =>
          UNCHANGED << error_flag, error_msg, queue_vars >>
       ]_vars

\* C17: empty-queue pop.  next_event on an empty queue, fresh or drained,
\* returns 0 with no event, and leaves the error state and head, tail and
\* capacity as they were.
C17_EmptyQueuePop ==
    [][ (Live /\ pc = "idle" /\ op' = "next_event" /\ event_buf_head = event_buf_tail) =>
          /\ QLen(Q) = 0
          /\ ret' = 0
          /\ out' = NoEvent
          /\ popped' = popped
          /\ UNCHANGED dec_vars
       ]_vars

\* next_event found nothing on a session, not in error, whose ring grew and
\* was drained of every event it had accepted.
C17_Witness ==
    /\ st = "live" /\ op = "next_event" /\ ret = 0
    /\ error_flag = 0
    /\ Len(pushed) >= 3 /\ popped = pushed
    /\ event_buf_cap > InitCap /\ event_buf_head # 0

\* C18: an event of a kind for which the callback reads no core from the
\* element (TraceOn, TraceOff, Exception, ExceptionReturn) is delivered by
\* next_event with cpu = -1.
C18_UnknownCpuIsMinusOne ==
    (op = "next_event" /\ ret = 1
       /\ out.kind \in { MTRACE_CS_EVENT_TRACE_ON, MTRACE_CS_EVENT_TRACE_OFF,
                         MTRACE_CS_EVENT_EXCEPTION, MTRACE_CS_EVENT_EXCEPTION_RET })
    => out.cpu = -1

\* The capacities a ring created with InitCap slots can have.
Capacities == { event_buf_cap } \cap
              { InitCap, 2 * InitCap, 4 * InitCap, 8 * InitCap, 16 * InitCap, 32 * InitCap }

\* The bounds of the ring in a state of a live session: head and tail lie in
\* [0, capacity), at most capacity - 1 events are stored, and the capacity is
\* the initial one times a power of two.
RingBounds ==
    st = "live" =>
       /\ event_buf_head \in 0 .. event_buf_cap - 1
       /\ event_buf_tail \in 0 .. event_buf_cap - 1
       /\ QLen(Q) <= event_buf_cap - 1
       /\ DOMAIN event_buf = 0 .. event_buf_cap - 1
       /\ Capacities # { }

\* A step in which the callback pushes an accepted event.
IsPush == IsCallback /\ Classify(cb'.elem).accept

\* C20 as stated: the ring always keeps one slot empty.  In every state of a
\* live session head and tail lie in [0, capacity), at most capacity - 1
\* events are stored, and the capacity is the initial one times a power of
\* two; the capacity never decreases; a push grows the store exactly when the
\* queue holds capacity - 1 events, and a successful push never leaves
\* head = tail.
C20_GrowsExactlyWhenFull ==
    [][ /\ RingBounds
        /\ Live => event_buf_cap' >= event_buf_cap
        /\ IsPush =>
              /\ (event_buf_cap' # event_buf_cap) <=> (QLen(Q) = event_buf_cap - 1)
              /\ cb'.resp = OCSD_RESP_CONT => event_buf_head' # event_buf_tail'
       ]_vars

\* C20, amended: as above, but a push of an event into a queue that holds
\* capacity - 1 events grows the store only if realloc succeeds; when it
\* fails the capacity stays and the push fails.  A push attempts growth
\* exactly when the queue holds capacity - 1 events, the capacity changes
\* exactly when it does and the allocation succeeds, and a successful push
\* adds one event and never leaves head = tail.
C20_OneSlotEmpty ==
    [][ /\ RingBounds
        /\ Live => event_buf_cap' >= event_buf_cap
        /\ IsPush =>
              /\ (note' \in { "grown", "grown_wrapped", "nomem" }) <=> (QLen(Q) = event_buf_cap - 1)
              /\ (event_buf_cap' # event_buf_cap) <=> (QLen(Q) = event_buf_cap - 1 /\ cb'.realloc_ok)
              /\ (event_buf_cap' # event_buf_cap) => event_buf_cap' = 2 * event_buf_cap
              /\ (cb'.resp = OCSD_RESP_CONT) <=> (QLen(Q) < event_buf_cap - 1 \/ cb'.realloc_ok)
              /\ cb'.resp = OCSD_RESP_CONT =>
                    (event_buf_head' # event_buf_tail' /\ QLen(Q') = QLen(Q) + 1)
       ]_vars

\* A push filled a wrapped, once-grown ring to capacity - 1 without growing it.
C20_Witness ==
    /\ st = "live" /\ note = "stored"
    /\ event_buf_cap = 2 * InitCap
    /\ QLen(Q) = event_buf_cap - 1
    /\ event_buf_head < event_buf_tail

\* C14: create never reports an engine-construction failure as a failure
\* return.  create returns NULL only when the allocation of the session or of
\* the queue failed; when the engine refused the decode tree or the decoder,
\* create returns a session with the error flag set, a message, and an empty
\* queue.
C14_CreateReturnsSessionOnEngineFailure ==
    op = "create" =>
       /\ ret = 0 => status = "-"
       /\ status \notin { "-", OCSD_OK } =>
             /\ ret = 1 /\ st = "live"
             /\ error_flag = 1 /\ error_msg # EmptyMsg
             /\ QLen(Q) = 0

\* C15: destroy is idempotent.  destroy on NULL and destroy on a handle that
\* was already destroyed change nothing; over every sequence of create,
\* destroy and finalize the tree, the queue storage and the session of a
\* handle are each released at most once, exactly once when the handle is
\* destroyed, and destroy never runs on released memory.
C15_DestroyIdempotent ==
    [][ /\ (pc = "idle" /\ op' = "destroy" /\ st \in { "none", "destroyed" }) =>
              UNCHANGED << st, released, dec_vars >>
        /\ released'.tree <= 1 /\ released'.buf <= 1 /\ released'.dec <= 1
        /\ ~released'.uaf
        /\ st' # "aborted"
        /\ st' = "destroyed" => released' = Released(1, 1, 1, FALSE)
       ]_vars

\* C19: architecture selection is a static table.  The payloads create
\* chooses for the selectors 3, 4 and 5 are pairwise distinct, and for every
\* other selector create chooses the decoder and the payload of selector 4.
C19_ArchTable ==
    decoder_cfg # NoCfg =>
       LET a == decoder_cfg.arch_version
       IN /\ a \in { 3, 4, 5 } =>
                \A b \in { 3, 4, 5 } \ { a } : decoder_cfg.cfg # ArchConfig(b).cfg
          /\ a \notin { 3, 4, 5 } =>
                /\ decoder_cfg.cfg = ArchConfig(4).cfg
                /\ decoder_cfg.decoder_name = ArchConfig(4).decoder_name

\* The element kinds the table of C16 gives an event.
HasRow(e) ==
    e.elem_type \in { "OCSD_GEN_TRC_ELEM_INSTR_RANGE", "OCSD_GEN_TRC_ELEM_TRACE_ON",
                      "OCSD_GEN_TRC_ELEM_TRACE_OFF", "OCSD_GEN_TRC_ELEM_EXCEPTION",
                      "OCSD_GEN_TRC_ELEM_EXCEPTION_RET" }

\* The table of C16, row by row: ev is what element e maps to.
Row(e, ev) ==
    /\ (e.elem_type = "OCSD_GEN_TRC_ELEM_INSTR_RANGE"
          /\ e.last_instr_type = "OCSD_INSTR_BR_INDIRECT") =>
          (ev.kind = MTRACE_CS_EVENT_RETURN /\ ev.from_addr = e.st_addr /\ ev.to_addr = e.en_addr)
    /\ (e.elem_type = "OCSD_GEN_TRC_ELEM_INSTR_RANGE"
          /\ e.last_instr_type = "OCSD_INSTR_BR") =>
          (ev.kind = MTRACE_CS_EVENT_CALL /\ ev.from_addr = e.st_addr /\ ev.to_addr = e.en_addr)
    /\ (e.elem_type = "OCSD_GEN_TRC_ELEM_INSTR_RANGE"
          /\ e.last_instr_type \notin { "OCSD_INSTR_BR_INDIRECT", "OCSD_INSTR_BR" }) =>
          (ev.kind = MTRACE_CS_EVENT_INSTRUCTION_RANGE
             /\ ev.from_addr = e.st_addr /\ ev.to_addr = e.en_addr)
    /\ e.elem_type = "OCSD_GEN_TRC_ELEM_TRACE_ON" => ev.kind = MTRACE_CS_EVENT_TRACE_ON
    /\ e.elem_type = "OCSD_GEN_TRC_ELEM_TRACE_OFF" => ev.kind = MTRACE_CS_EVENT_TRACE_OFF
    /\ e.elem_type = "OCSD_GEN_TRC_ELEM_EXCEPTION" =>
          (ev.kind = MTRACE_CS_EVENT_EXCEPTION /\ ev.exception_number = e.exception_number)
    /\ e.elem_type = "OCSD_GEN_TRC_ELEM_EXCEPTION_RET" => ev.kind = MTRACE_CS_EVENT_EXCEPTION_RET

\* This step added exactly one event, the one the table gives the element of
\* the callback, as the new last element of the queue.
AddsOne ==
    LET new == Contents(Q')
    IN /\ Len(new) = QLen(Q) + 1
       /\ new = Append(Contents(Q), new[Len(new)])
       /\ Row(cb'.elem, new[Len(new)])
       /\ pushed' = Append(pushed, new[Len(new)])
       /\ cb'.resp = OCSD_RESP_CONT

\* This step added no event and left the queue and the error state alone.
AddsNone ==
    /\ UNCHANGED << queue_vars, error_flag, error_msg, pushed >>
    /\ cb'.resp = OCSD_RESP_CONT

\* C16 as stated: the classifier maps each element to zero or one event by
\* the fixed table (indirect-branch range -> Return, direct-branch range ->
\* Call, other range -> InstructionRange, each with from and to; trace-on,
\* trace-off, exception with its number, exception-return); an element of any
\* other kind adds nothing, leaves queue and error state unchanged and
\* answers continue; each accepted element adds exactly one event as the new
\* last element of the queue.
C16_EachAcceptedAddsOne ==
    [][ IsCallback => IF HasRow(cb'.elem) THEN AddsOne ELSE AddsNone ]_vars

\* C16, amended: the same table, and each accepted element adds exactly one
\* event as the new last element of the queue unless the push fails for lack
\* of memory, in which case it adds none and the queue holds the events it
\* held (C11).
C16_ClassifierTable ==
    [][ IsCallback =>
          IF HasRow(cb'.elem)
          THEN /\ Row(cb'.elem, CbEvent)
               /\ IF QLen(Q) = event_buf_cap - 1 /\ ~cb'.realloc_ok
                  THEN Contents(Q') = Contents(Q) /\ pushed' = pushed
                  ELSE AddsOne
          ELSE AddsNone
       ]_vars

\* The callback accepted a direct-branch range as the second event of the
\* queue, after a growth, and queued it as a Call behind the first.
C16_Witness ==
    /\ pc = "flush" /\ cb.resp = OCSD_RESP_CONT
    /\ cb.elem.elem_type = "OCSD_GEN_TRC_ELEM_INSTR_RANGE"
    /\ cb.elem.last_instr_type = "OCSD_INSTR_BR"
    /\ note \in { "grown", "grown_wrapped" }
    /\ Len(Contents(Q)) = 2
    /\ Contents(Q)[2].kind = MTRACE_CS_EVENT_CALL
    /\ Contents(Q)[2].from_addr = 4112 /\ Contents(Q)[2].to_addr = 4128

\* C21: the queue is written only during feed and flush and read only during
\* next_event.  In every step of a session an event is added only by a
\* callback inside decode or flush, and removed only by next_event; add_image,
\* has_error and error_msg leave the contents of the queue as they are; and
\* once the error flag is set no step adds an event or makes the queue longer.
C21_QueueWrittenOnlyInFeed ==
    [][ Live =>
          /\ pushed' # pushed => (pc \in { "decode", "flush" } /\ op \in { "decode", "flush" })
          /\ popped' # popped => (pc = "idle" /\ op' = "next_event")
          /\ (pc = "idle" /\ op' \in { "add_image", "has_error", "error_msg" }) =>
                (Contents(Q') = Contents(Q) /\ pushed' = pushed /\ popped' = popped)
          /\ (pc = "idle" /\ op' = "next_event") =>
                (pushed' = pushed /\ QLen(Q') <= QLen(Q))
          /\ (pc # "idle" \/ op' \in { "decode", "flush" }) =>
                (popped' = popped /\ QLen(Q') >= QLen(Q))
          /\ Contents(Q') # Contents(Q) => (pushed' # pushed \/ popped' # popped)
          /\ error_flag = 1 => (pushed' = pushed /\ QLen(Q') <= QLen(Q))
       ]_vars

\* decode was refused on a session in error that still holds events, some of
\* which were drained before.
C21_Witness ==
    /\ st = "live" /\ pc = "idle" /\ error_flag = 1
    /\ op = "decode" /\ ret = -1 /\ ~engine_called
    /\ QLen(Q) >= 2 /\ Len(popped) >= 1

\* C23: feed reports the engine's consumed-byte count faithfully.  When the
\* engine returns success or the soft unsupported-packet status to decode on
\* a session not in error, with consumed count n, decode returns n, which is
\* not negative; decode returns a negative value, and the stub an Error, only
\* if the error flag is set after the call.
C23_FeedByteCountFaithful ==
    [][ IsDecodeReturn =>
          /\ (error_flag = 0 /\ DecodeSoft(status')) =>
                /\ ret' >= 0
                /\ ret' \div 65536 = bytes_used'.hi
                /\ ret' % 65536 = bytes_used'.lo
                /\ result' = Ok(ret')
          /\ (ret' < 0 \/ result'.tag = "Error") => error_flag' = 1
       ]_vars

\* C22: a session whose creation latched a configuration failure is usable
\* for destruction only.  On a session created with a decoder the engine
\* refused, decode, flush and add_image all return without calling into the
\* engine.
C22_ConfigFailedNeverContactsEngine ==
    [][ (Live /\ pc = "idle" /\ create_err # OCSD_OK
           /\ op' \in { "decode", "flush", "add_image" }) =>
          (~engine_called' /\ pc' = "idle")
       ]_vars

====
